---- MODULE Spec2Model ----
(***************************************************************************)
(* The Quorum Store driver (consensus/src/quorum_store/quorum_store.rs)    *)
(* with the actors it is wired to: the self BatchAggregator, the Batch     *)
(* Store, the Proof Builder, the Network Listener and the validator peers. *)
(* The driver is translated from its source; the other actors, whose       *)
(* source is not at hand, follow the design document.                      *)
(***************************************************************************)
EXTENDS Integers, Sequences, FiniteSets, TLC

\* ---------------------------------------------------------------- bounds
MaxCmds == 4          \* commands the producer sends in one run
CmdQueueSize == 2     \* depth of the producer's command queue
ChannelSize == 2      \* config.channel_size
NarrowChannelSize == 1  \* config.channel_size of the narrow configuration
MaxBatchSize == 3     \* config.max_batch_size, in bytes
Epoch == 2            \* the epoch the driver is constructed for

\* ------------------------------------------------------------ the inputs
Me == "me"                                  \* my_peer_id
Peers == {"p1", "p2"}                       \* committee members other than Me
Outsiders == {"x"}                          \* senders outside the committee
Committee == {Me} \cup Peers
Payloads == {<<1>>, <<2>>}                  \* a transaction is its size in bytes
Expirations == {7, 9}                       \* LogicalTime rounds of Epoch
BatchIds == 1..(MaxCmds \div 2)             \* up to two commands per batch on average
Chans == 1..MaxCmds                         \* return channels, one per command slot

VARIABLES
    command_rx,        \* the producer's command queue
    nCmds,             \* commands sent so far
    prodLast,          \* the producer's latest batch id
    prodEnded,         \* whether that batch has been ended
    nReuses,           \* how often the producer has used a batch id again
    closed,            \* whether the producer has dropped its command sender
    channel_size,      \* capacity of batch_store_tx and of proof_builder_tx
    bs_alive,          \* whether the Batch Store holds batch_store_rx
    pb_alive,          \* whether the Proof Builder holds proof_builder_rx
    pc,                \* where the driver's loop stands
    pend,              \* what the driver holds across a suspended send
    fragment_id,
    batch_aggregator,
    digest_end_batch,
    futures,           \* the FuturesUnordered of persist replies
    batch_store_tx,    \* the Batch Store's queue
    proof_builder_tx,  \* the Proof Builder's queue
    persist_rx,        \* the one-shot persist reply channels
    retChan,           \* the producer's return channels
    db,                \* digests the Batch Store has persisted
    pbState,           \* the Proof Builder's open aggregations
    log,               \* what the driver has broadcast, in order
    built,             \* every fragment the driver has built, with its command
    bsLog,             \* every command the driver put in batch_store_tx
    initLog,           \* every InitProof the driver put in proof_builder_tx
    firstCmd,          \* per digest, the first command put in proof_builder_tx
    handled            \* the commands and replies the driver has handled

producerVars == <<nCmds, prodLast, prodEnded, nReuses, closed>>
wiringVars == <<channel_size, bs_alive, pb_alive>>
driverVars == <<pc, pend, fragment_id, batch_aggregator, digest_end_batch, futures>>
histVars == <<log, built, bsLog, initLog, firstCmd, handled>>
vars == <<command_rx, producerVars, wiringVars, driverVars, batch_store_tx, proof_builder_tx,
          persist_rx, retChan, db, pbState, histVars>>

\* ------------------------------------------------------------- the types
RECURSIVE SumBytes(_)
SumBytes(s) == IF s = <<>> THEN 0 ELSE Head(s) + SumBytes(Tail(s))

\* The digest: a collision-free hash over (author, epoch, batch_id, payload).
HashOf(author, epoch, batch_id, payload) ==
    <<author, epoch, batch_id, payload>>

\* Fragment::new(epoch, batch_id, fragment_id, payload, maybe_expiration, author)
\* maybe_expiration is <<>> for None and <<e>> for Some(e).
FragmentNew(epoch, batch_id, fid, payload, maybe_expiration, author) ==
    [epoch |-> epoch, batch_id |-> batch_id, fragment_id |-> fid,
     payload |-> payload, maybe_expiration |-> maybe_expiration,
     author |-> author]

\* PersistRequest::new(author, payload, digest, num_bytes, expiration)
PersistRequestNew(author, payload, digest, num_bytes, expiration) ==
    [author |-> author, payload |-> payload, digest |-> digest,
     num_bytes |-> num_bytes, expiration |-> expiration]

SignedDigestOf(signer, digest, expiration) ==
    [signer |-> signer, epoch |-> Epoch, digest |-> digest,
     expiration |-> expiration]

\* HashMap::insert and HashMap::remove
MapInsert(m, k, v) == [x \in DOMAIN m \cup {k} |-> IF x = k THEN v ELSE m[x]]
MapRemove(m, k) == [x \in DOMAIN m \ {k} |-> m[x]]
EmptyMap == [x \in {} |-> {}]

\* A return channel: its sender is alive ("open"), has sent Ok or Err, or
\* was dropped without a value.
ChanUnused == [st |-> "unused", batch_id |-> 0, digest |-> <<>>, signers |-> {}]
ChanOpen == [st |-> "open", batch_id |-> 0, digest |-> <<>>, signers |-> {}]
ChanDropped == [st |-> "dropped", batch_id |-> 0, digest |-> <<>>, signers |-> {}]
ChanErr(batch_id) ==
    [st |-> "err", batch_id |-> batch_id, digest |-> <<>>, signers |-> {}]
ChanOk(digest, batch_id, signers) ==
    [st |-> "ok", batch_id |-> batch_id, digest |-> digest, signers |-> signers]

\* Dropping the senders in cs: a channel that holds no value yet is cancelled.
DropSenders(rc, cs) ==
    [c \in Chans |-> IF c \in cs /\ rc[c].st = "open" THEN ChanDropped ELSE rc[c]]

\* ------------------------------------------------- the Batch Aggregator
\* One batch in flight: batch is <<>> (none) or <<batch_id>>.
AggNew == [batch |-> <<>>, next |-> 0, payload |-> <<>>]

\* (batch_id, fragment_id) continues the current batch or starts a new one.
AggInOrder(a, batch_id, fid) ==
    \/ a.batch = <<batch_id>> /\ fid = a.next
    \/ a.batch = <<>> /\ fid = 0

AggFits(a, payload) == SumBytes(a.payload) + SumBytes(payload) <= MaxBatchSize

AggregationMode_IgnoreWrongOrder == "IgnoreWrongOrder"

\* The mode the driver constructs its aggregator with.
AggregationMode == "AssertWrongOrder"

\* What a misordered input does: a fatal failure in AssertWrongOrder mode;
\* in IgnoreWrongOrder mode the input is discarded and the aggregator reset.
AggAfterMisorder(a) ==
    IF AggregationMode = "AssertWrongOrder" THEN a ELSE AggNew

\* append: per mode on misorder; an oversize batch is terminated with
\* failure.
append_transactions(a, batch_id, fid, payload) ==
    IF ~AggInOrder(a, batch_id, fid)
    THEN [panic |-> AggregationMode = "AssertWrongOrder", accepted |-> FALSE,
          agg |-> AggAfterMisorder(a)]
    ELSE IF ~AggFits(a, payload)
    THEN [panic |-> FALSE, accepted |-> FALSE, agg |-> AggNew]
    ELSE [panic |-> FALSE, accepted |-> TRUE,
          agg |-> [batch |-> <<batch_id>>, next |-> fid + 1,
                   payload |-> a.payload \o payload]]

\* end: same acceptance rule; on success the assembled batch, state cleared.
end_batch(a, batch_id, fid, payload) ==
    IF ~AggInOrder(a, batch_id, fid)
    THEN [panic |-> AggregationMode = "AssertWrongOrder", some |-> FALSE,
          agg |-> AggAfterMisorder(a),
          num_bytes |-> 0, payload |-> <<>>, digest |-> <<>>]
    ELSE IF ~AggFits(a, payload)
    THEN [panic |-> FALSE, some |-> FALSE, agg |-> AggNew,
          num_bytes |-> 0, payload |-> <<>>, digest |-> <<>>]
    ELSE [panic |-> FALSE, some |-> TRUE, agg |-> AggNew,
          num_bytes |-> SumBytes(a.payload \o payload),
          payload |-> a.payload \o payload,
          digest |-> HashOf(Me, Epoch, batch_id, a.payload \o payload)]

\* ------------------------------------------------------------ the driver
AppendFragment_OffByOne(fid, fragment_payload, batch_id) ==
    FragmentNew(Epoch, batch_id, fid + 1, fragment_payload, <<>>, Me)

AppendFragment_NoPayload(fid, fragment_payload, batch_id) ==
    FragmentNew(Epoch, batch_id, fid, <<>>, <<>>, Me)

\* The fragment handle_append_to_batch builds.
AppendFragment(fid, fragment_payload, batch_id) ==
    FragmentNew(Epoch, batch_id, fid, fragment_payload, <<>>, Me)

handle_append_to_batch_Always(a, fid, fragment_payload, batch_id) ==
    LET r == append_transactions(a, batch_id, fid, fragment_payload) IN
    [panic |-> r.panic, agg |-> r.agg,
     msg |-> <<AppendFragment(fid, fragment_payload, batch_id)>>]

\* handle_append_to_batch: msg is <<>> for None, <<fragment>> for Some.
handle_append_to_batch(a, fid, fragment_payload, batch_id) ==
    LET r == append_transactions(a, batch_id, fid, fragment_payload) IN
    [panic |-> r.panic, agg |-> r.agg,
     msg |-> IF r.accepted
             THEN <<AppendFragment(fid, fragment_payload, batch_id)>>
             ELSE <<>>]

EndFragment_NoExpiration(fid, fragment_payload, batch_id, expiration) ==
    FragmentNew(Epoch, batch_id, fid, fragment_payload, <<>>, Me)

\* The terminator handle_end_batch builds.
EndFragment(fid, fragment_payload, batch_id, expiration) ==
    FragmentNew(Epoch, batch_id, fid, fragment_payload, <<expiration>>, Me)

EndPersistRequest_FragmentPayload(r, fragment_payload, expiration) ==
    PersistRequestNew(Me, fragment_payload, r.digest, r.num_bytes, expiration)

\* The PersistRequest handle_end_batch builds from the aggregator's result r.
EndPersistRequest(r, fragment_payload, expiration) ==
    PersistRequestNew(Me, r.payload, r.digest, r.num_bytes, expiration)

\* handle_end_batch: cmd is <<>> for None, or the Persist command whose reply
\* channel is the one-shot numbered like the return channel.
handle_end_batch(a, fid, deb, fragment_payload, batch_id, expiration, proof_tx) ==
    LET r == end_batch(a, batch_id, fid, fragment_payload)
        fragment == EndFragment(fid, fragment_payload, batch_id, expiration)
        persist_request == EndPersistRequest(r, fragment_payload, expiration)
    IN
    [panic |-> r.panic, agg |-> r.agg, digest |-> r.digest,
     deb |-> IF r.some
             THEN MapInsert(deb, r.digest,
                            [fragment |-> fragment, proof_tx |-> proof_tx])
             ELSE deb,
     \* senders dropped: proof_tx itself when nothing is stored, and the
     \* proof_tx of an entry the insert replaces
     dropped |-> IF ~r.some THEN {proof_tx}
                 ELSE IF r.digest \in DOMAIN deb THEN {deb[r.digest].proof_tx}
                 ELSE {},
     cmd |-> IF r.some
             THEN <<[type |-> "Persist", req |-> persist_request,
                     reply |-> proof_tx]>>
             ELSE <<>>]

\* A panic unwinds the driver task: the command queue, the map, the pending
\* command and the futures are dropped, and with them the senders they hold.
HeldChans ==
    {command_rx[i].proof_tx : i \in {j \in 1..Len(command_rx) :
                                       command_rx[j].type = "EndBatch"}}
      \cup {digest_end_batch[d].proof_tx : d \in DOMAIN digest_end_batch}
      \cup {pend[i].proof_tx : i \in {j \in 1..Len(pend) :
                                       pend[j].type = "InitProof"}}

DriverPanics(extra) ==
    /\ pc' = "panicked"
    /\ pend' = <<>>
    /\ command_rx' = <<>>
    /\ digest_end_batch' = EmptyMap
    /\ futures' = {}
    /\ retChan' = DropSenders(retChan, HeldChans \cup extra)
    /\ UNCHANGED <<fragment_id, batch_aggregator>>

\* ------------------------------------------------------------------ Init
InitWith(size) ==
    /\ command_rx = <<>>
    /\ nCmds = 0
    /\ prodLast = 0
    /\ prodEnded = TRUE
    /\ nReuses = 0
    /\ closed = FALSE
    /\ channel_size = size
    /\ bs_alive = TRUE
    /\ pb_alive = TRUE
    /\ pc = "select"
    /\ pend = <<>>
    /\ fragment_id = 0
    /\ batch_aggregator = AggNew
    /\ digest_end_batch = EmptyMap
    /\ futures = {}
    /\ batch_store_tx = <<>>
    /\ proof_builder_tx = <<>>
    /\ persist_rx = [c \in Chans |-> [st |-> "unused", sd |-> <<>>]]
    /\ retChan = [c \in Chans |-> ChanUnused]
    /\ db = {}
    /\ pbState = EmptyMap
    /\ log = <<>>
    /\ built = <<>>
    /\ bsLog = <<>>
    /\ initLog = <<>>
    /\ firstCmd = EmptyMap
    /\ handled = [c \in Chans |-> [cmd |-> <<>>, end |-> "no", reply |-> "no",
                                   fid |-> 0, agg |-> AggNew]]

Init == InitWith(ChannelSize)

\* The same construction with the smallest channel capacity.
InitNarrow == InitWith(NarrowChannelSize)

\* ---------------------------------------------------------- the producer
\* Batch ids are monotonic and an ended batch id is not used again: a command
\* is for the latest batch, if not ended, or for the next batch id.
ProducerMayUse(b) == b = prodLast + 1 \/ (b = prodLast /\ ~prodEnded)

ProducerAppendToBatch(payload, batch_id) ==
    /\ pc # "panicked"
    /\ ~closed
    /\ nCmds < MaxCmds
    /\ Len(command_rx) < CmdQueueSize
    /\ ProducerMayUse(batch_id)
    /\ command_rx' = Append(command_rx,
           [type |-> "AppendToBatch", payload |-> payload, batch_id |-> batch_id])
    /\ nCmds' = nCmds + 1
    /\ prodLast' = batch_id
    /\ prodEnded' = FALSE
    /\ UNCHANGED <<nReuses, closed, wiringVars, driverVars, batch_store_tx,
                   proof_builder_tx, persist_rx, retChan, db, pbState, histVars>>

ProducerEndBatch(payload, batch_id, expiration) ==
    /\ pc # "panicked"
    /\ ~closed
    /\ nCmds < MaxCmds
    /\ Len(command_rx) < CmdQueueSize
    /\ ProducerMayUse(batch_id)
    /\ LET ch == nCmds + 1 IN
       /\ command_rx' = Append(command_rx,
              [type |-> "EndBatch", payload |-> payload, batch_id |-> batch_id,
               expiration |-> expiration, proof_tx |-> ch])
       /\ retChan' = [retChan EXCEPT ![ch] = ChanOpen]
    /\ nCmds' = nCmds + 1
    /\ prodLast' = batch_id
    /\ prodEnded' = TRUE
    /\ UNCHANGED <<nReuses, closed, wiringVars, driverVars, batch_store_tx,
                   proof_builder_tx, persist_rx, db, pbState, histVars>>

\* A producer that does not keep batch ids unique: it retries the batch it
\* has just ended under the same id, for at most one command in four. The
\* driver takes whatever batch_id the command carries.
ProducerMayReuse(b) ==
    prodEnded /\ b = prodLast /\ b \in BatchIds /\ nReuses < MaxCmds \div 4

ProducerReusesInAppend(payload, batch_id) ==
    /\ pc # "panicked"
    /\ ~closed
    /\ nCmds < MaxCmds
    /\ Len(command_rx) < CmdQueueSize
    /\ ProducerMayReuse(batch_id)
    /\ nReuses' = nReuses + 1
    /\ command_rx' = Append(command_rx,
           [type |-> "AppendToBatch", payload |-> payload, batch_id |-> batch_id])
    /\ nCmds' = nCmds + 1
    /\ prodLast' = batch_id
    /\ prodEnded' = FALSE
    /\ UNCHANGED <<closed, wiringVars, driverVars, batch_store_tx,
                   proof_builder_tx, persist_rx, retChan, db, pbState, histVars>>

ProducerReusesInEnd(payload, batch_id, expiration) ==
    /\ pc # "panicked"
    /\ ~closed
    /\ nCmds < MaxCmds
    /\ Len(command_rx) < CmdQueueSize
    /\ ProducerMayReuse(batch_id)
    /\ nReuses' = nReuses + 1
    /\ LET ch == nCmds + 1 IN
       /\ command_rx' = Append(command_rx,
              [type |-> "EndBatch", payload |-> payload, batch_id |-> batch_id,
               expiration |-> expiration, proof_tx |-> ch])
       /\ retChan' = [retChan EXCEPT ![ch] = ChanOpen]
    /\ nCmds' = nCmds + 1
    /\ prodLast' = batch_id
    /\ prodEnded' = TRUE
    /\ UNCHANGED <<closed, wiringVars, driverVars, batch_store_tx,
                   proof_builder_tx, persist_rx, db, pbState, histVars>>

\* Epoch change: the producer drops its command sender. What is queued can
\* still be received; then recv() yields None.
ProducerClose ==
    /\ pc # "panicked"
    /\ ~closed
    /\ closed' = TRUE
    /\ UNCHANGED <<command_rx, nCmds, prodLast, prodEnded, nReuses, wiringVars,
                   driverVars, batch_store_tx, proof_builder_tx, persist_rx,
                   retChan, db, pbState, histVars>>

\* ------------------------------------------------------ the driver's loop
\* select! giving up as soon as the command branch is disabled.
DriverSelectDisabled_IgnoresFutures ==
    /\ pc = "select"
    /\ closed
    /\ command_rx = <<>>
    /\ DriverPanics({})
    /\ UNCHANGED <<producerVars, wiringVars, batch_store_tx, proof_builder_tx,
                   persist_rx, db, pbState, histVars>>

\* select! with no else branch: recv() yields None once the queue is closed
\* and empty, futures.next() yields None while no reply is awaited; neither
\* matches Some(..), both branches are disabled and select! panics.
DriverSelectDisabled ==
    /\ pc = "select"
    /\ closed
    /\ command_rx = <<>>
    /\ futures = {}
    /\ DriverPanics({})
    /\ UNCHANGED <<producerVars, wiringVars, batch_store_tx, proof_builder_tx,
                   persist_rx, db, pbState, histVars>>

\* select!: the AppendToBatch arm.
DriverAppendToBatch ==
    /\ pc = "select"
    /\ command_rx # <<>>
    /\ Head(command_rx).type = "AppendToBatch"
    /\ LET command == Head(command_rx)
           r == handle_append_to_batch(batch_aggregator, fragment_id,
                                       command.payload, command.batch_id)
       IN
       IF r.panic
       THEN /\ DriverPanics({})
            /\ UNCHANGED <<log, built>>
       ELSE /\ command_rx' = Tail(command_rx)
            /\ batch_aggregator' = r.agg
            /\ log' = log \o r.msg
            /\ built' = built \o [i \in 1..Len(r.msg) |->
                                     [cmd |-> command, fragment |-> r.msg[i]]]
            /\ fragment_id' = fragment_id + 1
            /\ UNCHANGED <<pc, pend, digest_end_batch, futures, retChan>>
    /\ UNCHANGED <<producerVars, wiringVars, batch_store_tx, proof_builder_tx, persist_rx,
                   db, pbState, bsLog, initLog, firstCmd, handled>>

\* select!: the EndBatch arm up to the send to the Batch Store.
DriverEndBatch ==
    /\ pc = "select"
    /\ command_rx # <<>>
    /\ Head(command_rx).type = "EndBatch"
    /\ LET command == Head(command_rx)
           r == handle_end_batch(batch_aggregator, fragment_id, digest_end_batch,
                                 command.payload, command.batch_id,
                                 command.expiration, command.proof_tx)
       IN
       /\ handled' = [handled EXCEPT ![command.proof_tx] =
              [cmd |-> <<command>>,
               end |-> IF r.panic THEN "panic"
                       ELSE IF r.cmd = <<>> THEN "none" ELSE "some",
               reply |-> "no", fid |-> fragment_id, agg |-> batch_aggregator]]
       /\ built' = IF r.panic \/ r.cmd = <<>> THEN built
                    ELSE Append(built, [cmd |-> command,
                                        fragment |-> r.deb[r.digest].fragment])
       /\ IF r.panic
          THEN DriverPanics({command.proof_tx})
          ELSE /\ command_rx' = Tail(command_rx)
               /\ batch_aggregator' = r.agg
               /\ digest_end_batch' = r.deb
               /\ retChan' = DropSenders(retChan, r.dropped)
               /\ IF r.cmd = <<>>
                  THEN /\ fragment_id' = 0
                       /\ UNCHANGED <<pc, pend>>
                  ELSE /\ pc' = "send_persist"
                       /\ pend' = r.cmd
                       /\ UNCHANGED fragment_id
               /\ UNCHANGED futures
    /\ UNCHANGED <<producerVars, wiringVars, batch_store_tx, proof_builder_tx, persist_rx,
                   db, pbState, log, bsLog, initLog, firstCmd>>

DriverSendPersist_AlsoInitProof ==
    /\ pc = "send_persist"
    /\ Len(batch_store_tx) < channel_size
    /\ Len(proof_builder_tx) < channel_size
    /\ batch_store_tx' = batch_store_tx \o pend
    /\ bsLog' = bsLog \o pend
    /\ persist_rx' = [persist_rx EXCEPT ![pend[1].reply] =
                          [st |-> "pending", sd |-> <<>>]]
    /\ futures' = futures \cup {pend[1].reply}
    /\ fragment_id' = 0
    /\ pend' = <<>>
    /\ pc' = "select"
    /\ LET e == digest_end_batch[pend[1].req.digest]
           c == [type |-> "InitProof",
                 sd |-> SignedDigestOf(Me, pend[1].req.digest,
                                       pend[1].req.expiration),
                 batch_id |-> e.fragment.batch_id, proof_tx |-> e.proof_tx]
       IN /\ proof_builder_tx' = Append(proof_builder_tx, c)
          /\ initLog' = Append(initLog, c)
    /\ UNCHANGED <<command_rx, producerVars, wiringVars, batch_aggregator, digest_end_batch,
                   retChan, db, pbState, log, built, firstCmd, handled>>

DriverSendPersist_BroadcastsTerminator ==
    /\ pc = "send_persist"
    /\ Len(batch_store_tx) < channel_size
    /\ batch_store_tx' = batch_store_tx \o pend
    /\ bsLog' = bsLog \o pend
    /\ persist_rx' = [persist_rx EXCEPT ![pend[1].reply] =
                          [st |-> "pending", sd |-> <<>>]]
    /\ futures' = futures \cup {pend[1].reply}
    /\ fragment_id' = 0
    /\ pend' = <<>>
    /\ pc' = "select"
    /\ log' = Append(log, digest_end_batch[pend[1].req.digest].fragment)
    /\ UNCHANGED <<command_rx, producerVars, wiringVars, batch_aggregator, digest_end_batch,
                   proof_builder_tx, retChan, db, pbState, built, initLog,
                   firstCmd, handled>>

DriverSendPersist_NeverSuspends ==
    /\ pc = "send_persist"
    /\ batch_store_tx' = batch_store_tx \o pend
    /\ bsLog' = bsLog \o pend
    /\ persist_rx' = [persist_rx EXCEPT ![pend[1].reply] =
                          [st |-> "pending", sd |-> <<>>]]
    /\ futures' = futures \cup {pend[1].reply}
    /\ fragment_id' = 0
    /\ pend' = <<>>
    /\ pc' = "select"
    /\ UNCHANGED <<command_rx, producerVars, wiringVars, batch_aggregator,
                   digest_end_batch, proof_builder_tx, retChan, db, pbState,
                   log, built, initLog, firstCmd, handled>>

DriverSendPersist_KeepsFragmentId ==
    /\ pc = "send_persist"
    /\ Len(batch_store_tx) < channel_size
    /\ batch_store_tx' = batch_store_tx \o pend
    /\ bsLog' = bsLog \o pend
    /\ persist_rx' = [persist_rx EXCEPT ![pend[1].reply] =
                          [st |-> "pending", sd |-> <<>>]]
    /\ futures' = futures \cup {pend[1].reply}
    /\ pend' = <<>>
    /\ pc' = "select"
    /\ UNCHANGED <<command_rx, producerVars, wiringVars, fragment_id,
                   batch_aggregator, digest_end_batch, proof_builder_tx, retChan,
                   db, pbState, log, built, initLog, firstCmd, handled>>

\* batch_store_tx.send(..).await, which suspends while the queue is full,
\* then futures.push and the reset of fragment_id. The send fails, and expect
\* panics, when the Batch Store has dropped its receiver.
DriverSendPersist ==
    /\ pc = "send_persist"
    /\ IF bs_alive
       THEN /\ Len(batch_store_tx) < channel_size
            /\ batch_store_tx' = batch_store_tx \o pend
            /\ bsLog' = bsLog \o pend
            /\ persist_rx' = [persist_rx EXCEPT ![pend[1].reply] =
                                  [st |-> "pending", sd |-> <<>>]]
            /\ futures' = futures \cup {pend[1].reply}
            /\ fragment_id' = 0
            /\ pend' = <<>>
            /\ pc' = "select"
            /\ UNCHANGED <<command_rx, batch_aggregator, digest_end_batch,
                           retChan>>
       ELSE /\ DriverPanics({})
            /\ UNCHANGED <<batch_store_tx, bsLog, persist_rx>>
    /\ UNCHANGED <<producerVars, wiringVars, proof_builder_tx, db, pbState,
                   log, built, initLog, firstCmd, handled>>

\* The Ok arm of the persist reply, after the entry is removed: first the
\* InitProof is sent to the Proof Builder, then the terminator is broadcast.
ReplyArm_BroadcastFirst == <<"broadcast_last", "send_init">>

ReplyArm == <<"send_init", "broadcast_last">>

\* The reply arm taking some entry of the map, whatever the reply's digest.
DriverPersistReply_AnyEntry(rx) ==
    /\ pc = "select"
    /\ rx \in futures
    /\ persist_rx[rx].st \in {"signed", "closed"}
    /\ futures' = futures \ {rx}
    /\ IF persist_rx[rx].st = "signed"
       THEN LET signed_digest == persist_rx[rx].sd[1] IN
            IF signed_digest.digest \in DOMAIN digest_end_batch
            THEN LET e == digest_end_batch[CHOOSE d \in DOMAIN digest_end_batch : TRUE] IN
                 /\ digest_end_batch' = MapRemove(digest_end_batch,
                                                  signed_digest.digest)
                 /\ pend' = <<[type |-> "InitProof", sd |-> signed_digest,
                               batch_id |-> e.fragment.batch_id,
                               proof_tx |-> e.proof_tx,
                               last_fragment |-> e.fragment]>>
                 /\ pc' = ReplyArm[1]
                 /\ handled' = [handled EXCEPT ![rx].reply = "ok"]
                 /\ UNCHANGED <<command_rx, retChan, fragment_id,
                                batch_aggregator>>
            ELSE \* remove(..).unwrap() on a missing entry
                 /\ DriverPanics({})
                 /\ handled' = [handled EXCEPT ![rx].reply = "panic"]
       ELSE /\ handled' = [handled EXCEPT ![rx].reply = "err"]
            /\ UNCHANGED <<command_rx, pc, pend, digest_end_batch, retChan,
                           fragment_id, batch_aggregator>>
    /\ UNCHANGED <<producerVars, wiringVars, batch_store_tx, proof_builder_tx, persist_rx,
                   db, pbState, log, built, bsLog, initLog, firstCmd>>

\* select!: the persist reply arm up to its first suspension point.
\* futures.next() yields any completed reply: Ok(signed_digest), or Err when
\* the Batch Store dropped the reply sender.
DriverPersistReply(rx) ==
    /\ pc = "select"
    /\ rx \in futures
    /\ persist_rx[rx].st \in {"signed", "closed"}
    /\ futures' = futures \ {rx}
    /\ IF persist_rx[rx].st = "signed"
       THEN LET signed_digest == persist_rx[rx].sd[1] IN
            IF signed_digest.digest \in DOMAIN digest_end_batch
            THEN LET e == digest_end_batch[signed_digest.digest] IN
                 /\ digest_end_batch' = MapRemove(digest_end_batch,
                                                  signed_digest.digest)
                 /\ pend' = <<[type |-> "InitProof", sd |-> signed_digest,
                               batch_id |-> e.fragment.batch_id,
                               proof_tx |-> e.proof_tx,
                               last_fragment |-> e.fragment]>>
                 /\ pc' = ReplyArm[1]
                 /\ handled' = [handled EXCEPT ![rx].reply = "ok"]
                 /\ UNCHANGED <<command_rx, retChan, fragment_id,
                                batch_aggregator>>
            ELSE \* remove(..).unwrap() on a missing entry
                 /\ DriverPanics({})
                 /\ handled' = [handled EXCEPT ![rx].reply = "panic"]
       ELSE /\ handled' = [handled EXCEPT ![rx].reply = "err"]
            /\ UNCHANGED <<command_rx, pc, pend, digest_end_batch, retChan,
                           fragment_id, batch_aggregator>>
    /\ UNCHANGED <<producerVars, wiringVars, batch_store_tx, proof_builder_tx, persist_rx,
                   db, pbState, log, built, bsLog, initLog, firstCmd>>

\* What goes in proof_builder_tx is recorded per digest the first time.
NoteFirst(fc, digest, kind) ==
    IF digest \in DOMAIN fc THEN fc ELSE MapInsert(fc, digest, kind)

\* After a step of the reply arm: the next one, or back to select!.
AfterReplyStep(step) ==
    IF step = ReplyArm[1] THEN [pc |-> ReplyArm[2], pend |-> pend]
    ELSE [pc |-> "select", pend |-> <<>>]

DriverSendInitProof_IgnoresSendError ==
    /\ pc = "send_init"
    /\ IF pb_alive
       THEN /\ Len(proof_builder_tx) < channel_size
            /\ LET c == [type |-> "InitProof", sd |-> pend[1].sd,
                         batch_id |-> pend[1].batch_id,
                         proof_tx |-> pend[1].proof_tx]
               IN /\ proof_builder_tx' = Append(proof_builder_tx, c)
                  /\ initLog' = Append(initLog, c)
            /\ firstCmd' = NoteFirst(firstCmd, pend[1].sd.digest, "InitProof")
            /\ UNCHANGED retChan
       ELSE /\ retChan' = DropSenders(retChan, {pend[1].proof_tx})
            /\ UNCHANGED <<proof_builder_tx, initLog, firstCmd>>
    /\ pc' = AfterReplyStep("send_init").pc
    /\ pend' = AfterReplyStep("send_init").pend
    /\ UNCHANGED <<command_rx, producerVars, wiringVars, fragment_id,
                   batch_aggregator, digest_end_batch, futures, batch_store_tx,
                   persist_rx, db, pbState, log, built, bsLog, handled>>

\* proof_builder_tx.send(InitProof).await, which suspends while the queue is
\* full. The send fails, and expect panics, when the Proof Builder has dropped
\* its receiver.
DriverSendInitProof ==
    /\ pc = "send_init"
    /\ IF pb_alive
       THEN /\ Len(proof_builder_tx) < channel_size
            /\ LET c == [type |-> "InitProof", sd |-> pend[1].sd,
                         batch_id |-> pend[1].batch_id,
                         proof_tx |-> pend[1].proof_tx]
               IN /\ proof_builder_tx' = Append(proof_builder_tx, c)
                  /\ initLog' = Append(initLog, c)
            /\ firstCmd' = NoteFirst(firstCmd, pend[1].sd.digest, "InitProof")
            /\ pc' = AfterReplyStep("send_init").pc
            /\ pend' = AfterReplyStep("send_init").pend
            /\ UNCHANGED <<command_rx, fragment_id, batch_aggregator,
                           digest_end_batch, futures, retChan>>
       ELSE /\ DriverPanics({})
            /\ UNCHANGED <<proof_builder_tx, initLog, firstCmd>>
    /\ UNCHANGED <<producerVars, wiringVars, batch_store_tx, persist_rx, db,
                   pbState, log, built, bsLog, handled>>

\* network_sender.broadcast_without_self(FragmentMsg(last_fragment)).await
DriverBroadcastLast ==
    /\ pc = "broadcast_last"
    /\ log' = Append(log, pend[1].last_fragment)
    /\ pc' = AfterReplyStep("broadcast_last").pc
    /\ pend' = AfterReplyStep("broadcast_last").pend
    /\ UNCHANGED <<command_rx, producerVars, wiringVars, fragment_id, batch_aggregator,
                   digest_end_batch, futures, batch_store_tx, proof_builder_tx,
                   persist_rx, retChan, db, pbState, built, bsLog, initLog,
                   firstCmd, handled>>

\* -------------------------------------------------------- the Batch Store
\* Persist: write to the DB, sign (epoch, digest, expiration) and reply with
\* the local SignedDigest.
BatchStorePersist ==
    /\ batch_store_tx # <<>>
    /\ LET c == Head(batch_store_tx) IN
       /\ db' = db \cup {c.req.digest}
       /\ persist_rx' = [persist_rx EXCEPT ![c.reply] =
              [st |-> "signed",
               sd |-> <<SignedDigestOf(Me, c.req.digest, c.req.expiration)>>]]
    /\ batch_store_tx' = Tail(batch_store_tx)
    /\ UNCHANGED <<command_rx, producerVars, wiringVars, driverVars, proof_builder_tx,
                   retChan, pbState, histVars>>

\* Persist fails (disk error, quota): nothing is signed and the reply sender
\* is dropped.
BatchStorePersistFails ==
    /\ batch_store_tx # <<>>
    /\ LET c == Head(batch_store_tx) IN
       persist_rx' = [persist_rx EXCEPT ![c.reply] =
                          [st |-> "closed", sd |-> <<>>]]
    /\ batch_store_tx' = Tail(batch_store_tx)
    /\ UNCHANGED <<command_rx, producerVars, wiringVars, driverVars, proof_builder_tx,
                   retChan, db, pbState, histVars>>

\* The Batch Store task ends: its receiver is dropped, and with it the
\* commands still queued and the reply senders they carry.
BatchStoreDies ==
    /\ bs_alive
    /\ bs_alive' = FALSE
    /\ batch_store_tx' = <<>>
    /\ persist_rx' = [c \in Chans |->
           IF \E i \in 1..Len(batch_store_tx) : batch_store_tx[i].reply = c
           THEN [st |-> "closed", sd |-> <<>>] ELSE persist_rx[c]]
    /\ UNCHANGED <<command_rx, producerVars, channel_size, pb_alive, driverVars,
                   proof_builder_tx, retChan, db, pbState, histVars>>

\* ------------------------------------------------------ the Proof Builder
\* The validator verifier: the epoch committee's voting power table and its
\* quorum threshold.
VotingPower(signer) ==
    CASE signer = Me -> 1
      [] signer = "p1" -> 1
      [] signer = "p2" -> 2
      [] OTHER -> 0

RECURSIVE SumPower(_)
SumPower(S) ==
    IF S = {} THEN 0
    ELSE LET x == CHOOSE y \in S : TRUE IN VotingPower(x) + SumPower(S \ {x})

TotalVotingPower == SumPower(Committee)
QuorumVotingPower == (TotalVotingPower * 2) \div 3 + 1

\* A send on a return channel: the value is delivered once.
SendOn(rc, ch, value) ==
    IF rc[ch].st = "open" THEN [rc EXCEPT ![ch] = value] ELSE rc

AcceptsSignature_RepeatedSigner(st, sd) ==
    /\ sd.digest \in DOMAIN st
    /\ sd.epoch = Epoch
    /\ sd.signer \in Committee

\* Whether AddSignature counts the vote.
AcceptsSignature(st, sd) ==
    /\ sd.digest \in DOMAIN st
    /\ sd.signer \notin st[sd.digest].voters
    /\ sd.epoch = Epoch
    /\ sd.signer \in Committee

ReachedQuorum(power) == power >= QuorumVotingPower

\* After a vote for digest: release the proof on quorum, else stay open.
PBAfterVote(st, digest) ==
    IF ReachedQuorum(st[digest].power)
    THEN /\ retChan' = SendOn(retChan, st[digest].proof_tx,
                              ChanOk(digest, st[digest].batch_id,
                                     st[digest].voters))
         /\ pbState' = MapRemove(st, digest)
    ELSE /\ pbState' = st
         /\ UNCHANGED retChan

\* InitProof: open the aggregation, seeded with the local vote.
PBInitProof ==
    /\ proof_builder_tx # <<>>
    /\ Head(proof_builder_tx).type = "InitProof"
    /\ LET c == Head(proof_builder_tx) IN
       PBAfterVote(MapInsert(pbState, c.sd.digest,
                       [batch_id |-> c.batch_id, proof_tx |-> c.proof_tx,
                        expiration |-> c.sd.expiration,
                        voters |-> {c.sd.signer},
                        power |-> VotingPower(c.sd.signer)]),
                   c.sd.digest)
    /\ proof_builder_tx' = Tail(proof_builder_tx)
    /\ UNCHANGED <<command_rx, producerVars, wiringVars, driverVars, batch_store_tx,
                   persist_rx, db, histVars>>

\* AddSignature: ignored for an unknown digest, a repeated signer, another
\* epoch or a signer outside the committee.
PBAddSignature ==
    /\ proof_builder_tx # <<>>
    /\ Head(proof_builder_tx).type = "AddSignature"
    /\ LET sd == Head(proof_builder_tx).sd IN
       IF AcceptsSignature(pbState, sd)
       THEN PBAfterVote([pbState EXCEPT
                             ![sd.digest].voters = @ \cup {sd.signer},
                             ![sd.digest].power = @ + VotingPower(sd.signer)],
                        sd.digest)
       ELSE UNCHANGED <<pbState, retChan>>
    /\ proof_builder_tx' = Tail(proof_builder_tx)
    /\ UNCHANGED <<command_rx, producerVars, wiringVars, driverVars, batch_store_tx,
                   persist_rx, db, histVars>>

\* The deadline passes without quorum.
PBTimeout(digest) ==
    /\ digest \in DOMAIN pbState
    /\ retChan' = SendOn(retChan, pbState[digest].proof_tx,
                         ChanErr(pbState[digest].batch_id))
    /\ pbState' = MapRemove(pbState, digest)
    /\ UNCHANGED <<command_rx, producerVars, wiringVars, driverVars, batch_store_tx,
                   proof_builder_tx, persist_rx, db, histVars>>

\* The Proof Builder task ends: its receiver is dropped, and with it the
\* commands still queued, its open aggregations and the return channel
\* senders they hold.
ProofBuilderDies ==
    /\ pb_alive
    /\ pb_alive' = FALSE
    /\ proof_builder_tx' = <<>>
    /\ pbState' = EmptyMap
    /\ retChan' = DropSenders(retChan,
           {proof_builder_tx[i].proof_tx :
                i \in {j \in 1..Len(proof_builder_tx) :
                          proof_builder_tx[j].type = "InitProof"}}
             \cup {pbState[d].proof_tx : d \in DOMAIN pbState})
    /\ UNCHANGED <<command_rx, producerVars, channel_size, bs_alive, driverVars,
                   batch_store_tx, persist_rx, db, histVars>>

\* ------------------------------------------- the peers and the Listener
\* A peer's per-author aggregator (IgnoreWrongOrder) run over the fragments
\* broadcast so far: the batches it has assembled.
RECURSIVE PeerAssembled(_, _, _)
PeerAssembled(frags, a, done) ==
    IF frags = <<>> THEN done
    ELSE LET f == Head(frags)
             ok == AggInOrder(a, f.batch_id, f.fragment_id) /\ AggFits(a, f.payload)
             payload == a.payload \o f.payload
         IN
         IF ~ok THEN PeerAssembled(Tail(frags), AggNew, done)
         ELSE IF f.maybe_expiration = <<>>
         THEN PeerAssembled(Tail(frags),
                  [batch |-> <<f.batch_id>>, next |-> f.fragment_id + 1,
                   payload |-> payload], done)
         ELSE PeerAssembled(Tail(frags), AggNew,
                  done \cup {[digest |-> HashOf(f.author, f.epoch, f.batch_id, payload),
                              expiration |-> f.maybe_expiration[1]]})

\* A peer signs a digest only after it has assembled the complete batch; its
\* SignedDigest then reaches this node (the network may deliver it again).
\* The Listener routes the SignedDigest of a committee member to the Proof
\* Builder as AddSignature and drops any other.
ListenerSignedDigest(signer, b) ==
    /\ b \in PeerAssembled(log, AggNew, {})
    /\ LET sd == SignedDigestOf(signer, b.digest, b.expiration) IN
       IF signer \in Committee
       THEN /\ pb_alive
            /\ Len(proof_builder_tx) < channel_size
            /\ proof_builder_tx' = Append(proof_builder_tx,
                                          [type |-> "AddSignature", sd |-> sd])
            /\ firstCmd' = NoteFirst(firstCmd, sd.digest, "AddSignature")
       ELSE UNCHANGED <<proof_builder_tx, firstCmd>>
    /\ UNCHANGED <<command_rx, producerVars, wiringVars, driverVars, batch_store_tx,
                   persist_rx, retChan, db, pbState, log, built, bsLog,
                   initLog, handled>>

\* --------------------------------------------------- the specification
Next ==
    \/ \E p \in Payloads, b \in BatchIds : ProducerAppendToBatch(p, b)
    \/ \E p \in Payloads, b \in BatchIds, e \in Expirations :
           ProducerEndBatch(p, b, e)
    \/ DriverAppendToBatch
    \/ DriverEndBatch
    \/ DriverSendPersist
    \/ \E rx \in Chans : DriverPersistReply(rx)
    \/ DriverSendInitProof
    \/ DriverBroadcastLast
    \/ BatchStorePersist
    \/ BatchStorePersistFails
    \/ PBInitProof
    \/ PBAddSignature
    \/ \E d \in DOMAIN pbState : PBTimeout(d)
    \/ \E p \in Peers \cup Outsiders, b \in PeerAssembled(log, AggNew, {}) :
           ListenerSignedDigest(p, b)

Spec == Init /\ [][Next]_vars

\* The driver with a producer that closes the command queue at epoch change.
NextTeardown ==
    \/ Next
    \/ ProducerClose
    \/ DriverSelectDisabled

SpecTeardown == Init /\ [][NextTeardown]_vars

\* The same while no SignedDigest of a peer arrives: the Proof Builder's
\* queue is fed by the driver alone.
NextDrain ==
    \/ \E p \in Payloads, b \in BatchIds : ProducerAppendToBatch(p, b)
    \/ \E p \in Payloads, b \in BatchIds, e \in Expirations :
           ProducerEndBatch(p, b, e)
    \/ ProducerClose
    \/ DriverAppendToBatch
    \/ DriverEndBatch
    \/ DriverSendPersist
    \/ \E rx \in Chans : DriverPersistReply(rx)
    \/ DriverSendInitProof
    \/ DriverBroadcastLast
    \/ DriverSelectDisabled
    \/ BatchStorePersist
    \/ BatchStorePersistFails
    \/ PBInitProof
    \/ \E d \in DOMAIN pbState : PBTimeout(d)

\* What the scheduling guarantees: the driver task is polled while one of
\* its arms can run, a send into a bounded queue completes once the consumer
\* has made room, and the Batch Store and the Proof Builder keep taking
\* commands from their queues.
FairDrain ==
    /\ \A rx \in Chans : WF_vars(DriverPersistReply(rx))
    /\ WF_vars(DriverSendPersist)
    /\ WF_vars(DriverSendInitProof)
    /\ WF_vars(DriverBroadcastLast)
    /\ WF_vars(BatchStorePersist \/ BatchStorePersistFails)
    /\ WF_vars(PBInitProof)

SpecDrain == Init /\ [][NextDrain]_vars /\ FairDrain

\* The driver with actors that may die.
NextCrash ==
    \/ Next
    \/ BatchStoreDies
    \/ ProofBuilderDies

SpecCrash == Init /\ [][NextCrash]_vars

\* The driver with a producer that uses a batch id again, while no
\* SignedDigest of a peer arrives (the peers are slow or silent).
NextReuse ==
    \/ \E p \in Payloads, b \in BatchIds : ProducerAppendToBatch(p, b)
    \/ \E p \in Payloads, b \in BatchIds, e \in Expirations :
           ProducerEndBatch(p, b, e)
    \/ DriverAppendToBatch
    \/ DriverEndBatch
    \/ DriverSendPersist
    \/ \E rx \in Chans : DriverPersistReply(rx)
    \/ DriverSendInitProof
    \/ DriverBroadcastLast
    \/ BatchStorePersist
    \/ BatchStorePersistFails
    \/ PBInitProof
    \/ \E d \in DOMAIN pbState : PBTimeout(d)
    \/ \E p \in Payloads, b \in BatchIds : ProducerReusesInAppend(p, b)
    \/ \E p \in Payloads, b \in BatchIds, e \in Expirations :
           ProducerReusesInEnd(p, b, e)

SpecReuse == Init /\ [][NextReuse]_vars

\* The same with channels of capacity NarrowChannelSize.
SpecNarrow == InitNarrow /\ [][NextReuse]_vars

\* ------------------------------------------------------------ the claims
\* What the driver recorded when it handled the EndBatch with return channel c.
EndCmd(c) == handled[c].cmd[1]
EndResult(c) ==
    end_batch(handled[c].agg, EndCmd(c).batch_id, handled[c].fid, EndCmd(c).payload)
TerminatorOf(c) ==
    FragmentNew(Epoch, EndCmd(c).batch_id, handled[c].fid, EndCmd(c).payload,
                <<EndCmd(c).expiration>>, Me)
IsTerminator(f) == f.maybe_expiration # <<>>
Indices(seq, Test(_)) == {i \in 1..Len(seq) : Test(seq[i])}

\* C1: for every EndBatch the driver has processed (the driver not having
\* failed fatally), the return channel is resolved with Ok(proof, batch_id)
\* or Err(Timeout(batch_id)) of that command's batch_id: it is never dropped
\* without a value, and never left open once the persist reply has completed
\* without a SignedDigest (after which nothing can resolve it).
C1_ReturnChannelResolves ==
    \A c \in Chans : handled[c].end \in {"some", "none"} /\ pc # "panicked" =>
        /\ retChan[c].st # "dropped"
        /\ retChan[c].st \in {"ok", "err"} =>
               retChan[c].batch_id = EndCmd(c).batch_id
        /\ retChan[c].st = "open" => handled[c].reply # "err"

\* C2: once the driver has seen the persist reply of a batch complete without
\* a SignedDigest, the return channel of that batch holds Err(Timeout(batch_id)).
C2_PersistFailureSurfaces ==
    \A c \in Chans : handled[c].reply = "err" =>
        retChan[c] = ChanErr(EndCmd(c).batch_id)

\* C3: every InitProof the driver has sent carries the SignedDigest of a
\* persist reply the driver has received, for a digest the Batch Store has
\* persisted; and every ProofOfStore on a return channel is for a persisted
\* digest.
C3_PersistBeforeProve ==
    /\ \A i \in 1..Len(initLog) :
           /\ initLog[i].sd.digest \in db
           /\ \E c \in Chans : /\ handled[c].reply = "ok"
                               /\ persist_rx[c].sd = <<initLog[i].sd>>
    /\ \A i \in 1..Len(proof_builder_tx) :
           proof_builder_tx[i].type = "InitProof" =>
               \E j \in 1..Len(initLog) : initLog[j] = proof_builder_tx[i]
    /\ \A c \in Chans : retChan[c].st = "ok" => retChan[c].digest \in db

C3_Witness ==
    \E c \in Chans : /\ retChan[c].st = "ok"
                     /\ retChan[c].digest = EndResult(c).digest
                     /\ retChan[c].digest \in db

\* The terminators broadcast for the batch of the EndBatch with channel c.
TerminatorsOf(c) ==
    Indices(log, LAMBDA f : IsTerminator(f) /\ f.batch_id = EndCmd(c).batch_id)
InReplyArm(c) ==
    pc \in {"send_init", "broadcast_last"} /\ pend[1].proof_tx = c

\* C4: a terminator is broadcast only for a batch whose SignedDigest reply the
\* driver has received and whose InitProof is already in the Proof Builder's
\* queue history; it is not broadcast while EndBatch is handled, never when
\* the reply delivered no SignedDigest, and exactly once when the reply arm
\* has run.
C4_TerminatorDeferred ==
    /\ \A i \in 1..Len(log) : IsTerminator(log[i]) =>
           \E c \in Chans :
               /\ handled[c].reply = "ok"
               /\ log[i] = TerminatorOf(c)
               /\ \E j \in 1..Len(initLog) :
                      /\ initLog[j].proof_tx = c
                      /\ initLog[j].sd.digest = EndResult(c).digest
    /\ \A c \in Chans : handled[c].end # "no" =>
           Cardinality(TerminatorsOf(c)) =
               IF handled[c].reply = "ok" /\ ~InReplyArm(c) THEN 1 ELSE 0

C4_Witness ==
    \E c \in Chans : /\ handled[c].reply = "ok"
                     /\ Cardinality(TerminatorsOf(c)) = 1
                     /\ \E d \in Chans : handled[d].reply = "err"

\* The fragments broadcast for batch_id b, in broadcast order.
BatchLog(b) == SelectSeq(log, LAMBDA f : f.batch_id = b)

\* C5: the fragments broadcast for one batch_id carry the fragment_ids
\* 0, 1, 2, ... in that order, and a terminator is the last of them.
C5_FragmentOrder ==
    \A b \in BatchIds :
        \A i \in 1..Len(BatchLog(b)) :
            /\ BatchLog(b)[i].fragment_id = i - 1
            /\ IsTerminator(BatchLog(b)[i]) => i = Len(BatchLog(b))

C5_Witness ==
    \E b \in BatchIds : /\ Len(BatchLog(b)) >= 3
                        /\ IsTerminator(BatchLog(b)[Len(BatchLog(b))])

\* C6: for every digest, the first command ever placed in the Proof Builder's
\* queue is InitProof, never AddSignature.
C6_InitProofFirst ==
    \A d \in DOMAIN firstCmd : firstCmd[d] = "InitProof"

C6_Witness ==
    \E i \in 1..Len(proof_builder_tx) :
        /\ proof_builder_tx[i].type = "AddSignature"
        /\ firstCmd[proof_builder_tx[i].sd.digest] = "InitProof"

\* C7: every ProofOfStore on a return channel is signed by committee members
\* whose voting power sums to at least the quorum; an open aggregation holds
\* only committee voters, counts each voter once and is below quorum.
C7_ProofSoundness ==
    /\ \A c \in Chans : retChan[c].st = "ok" =>
           /\ retChan[c].signers \subseteq Committee
           /\ SumPower(retChan[c].signers) >= QuorumVotingPower
    /\ \A d \in DOMAIN pbState :
           /\ pbState[d].voters \subseteq Committee
           /\ pbState[d].power = SumPower(pbState[d].voters)
           /\ pbState[d].power < QuorumVotingPower

C7_Witness ==
    \E c \in Chans : /\ retChan[c].st = "ok"
                     /\ Cardinality(retChan[c].signers) = 3

\* C8: every fragment the driver has built carries the driver's epoch, its
\* command's batch_id and the local peer id; one built by AppendToBatch has
\* no expiration and one built by EndBatch has the command's expiration; per
\* batch_id there is one fragment with an expiration when its EndBatch was
\* accepted and none otherwise.
C8_OneExpirationPerBatch ==
    /\ \A i \in 1..Len(built) :
           /\ built[i].fragment.epoch = Epoch
           /\ built[i].fragment.batch_id = built[i].cmd.batch_id
           /\ built[i].fragment.author = Me
           /\ built[i].fragment.maybe_expiration =
                  IF built[i].cmd.type = "EndBatch"
                  THEN <<built[i].cmd.expiration>> ELSE <<>>
    /\ \A b \in BatchIds :
           Cardinality(Indices(built, LAMBDA e : /\ e.fragment.batch_id = b
                                                 /\ IsTerminator(e.fragment)))
             = IF \E c \in Chans : /\ handled[c].end = "some"
                                   /\ EndCmd(c).batch_id = b
               THEN 1 ELSE 0

C8_Witness ==
    \E i, j \in 1..Len(built) :
        /\ built[i].fragment.batch_id = built[j].fragment.batch_id
        /\ built[i].cmd.type = "AppendToBatch"
        /\ built[j].cmd.type = "EndBatch"
        /\ built[j].fragment.maybe_expiration = <<9>>

\* A step in which the driver handles the AppendToBatch at the head of its
\* command queue.
HandlesAppend ==
    /\ pc = "select"
    /\ command_rx # <<>>
    /\ Head(command_rx).type = "AppendToBatch"
    /\ command_rx' = Tail(command_rx) \/ pc' = "panicked"
    /\ handled' = handled

\* C9: when the driver handles AppendToBatch(payload, batch_id) and the
\* aggregator accepts, exactly one FragmentMsg with that payload, that
\* batch_id and the fragment_id held before is broadcast and fragment_id
\* grows by one; when the aggregator does not accept, nothing is broadcast.
C9_AppendBroadcast ==
    [][HandlesAppend =>
         LET command == Head(command_rx)
             r == append_transactions(batch_aggregator, command.batch_id,
                                      fragment_id, command.payload)
         IN IF r.accepted
            THEN /\ log' = Append(log, FragmentNew(Epoch, command.batch_id,
                                         fragment_id, command.payload, <<>>, Me))
                 /\ fragment_id' = fragment_id + 1
            ELSE log' = log]_vars

\* An append was broadcast and the next one, oversize, was not.
C9_Witness ==
    /\ pc = "select"
    /\ Len(log) = 1
    /\ log[1].maybe_expiration = <<>>
    /\ fragment_id = 2
    /\ batch_aggregator = AggNew

\* A step in which the driver handles the EndBatch at the head of its command
\* queue, and what that step and the later send to the Batch Store must do.
HandlesEnd ==
    /\ pc = "select"
    /\ command_rx # <<>>
    /\ Head(command_rx).type = "EndBatch"
    /\ handled'[Head(command_rx).proof_tx].end # "no"
    /\ handled[Head(command_rx).proof_tx].end = "no"

C10_EndStep ==
    LET command == Head(command_rx)
        r == end_batch(batch_aggregator, command.batch_id, fragment_id,
                       command.payload)
    IN IF r.some
       THEN /\ digest_end_batch' =
                   MapInsert(digest_end_batch, r.digest,
                       [fragment |-> FragmentNew(Epoch, command.batch_id,
                                         fragment_id, command.payload,
                                         <<command.expiration>>, Me),
                        proof_tx |-> command.proof_tx])
            /\ pc' = "send_persist"
            /\ pend' = <<[type |-> "Persist",
                          req |-> PersistRequestNew(Me, r.payload, r.digest,
                                      r.num_bytes, command.expiration),
                          reply |-> command.proof_tx]>>
       ELSE /\ DOMAIN digest_end_batch' \subseteq DOMAIN digest_end_batch
            /\ pc' # "send_persist"
            /\ bsLog' = bsLog
            /\ futures' \subseteq futures

C10_SendStep ==
    /\ batch_store_tx' = Append(batch_store_tx, pend[1])
    /\ bsLog' = Append(bsLog, pend[1])
    /\ futures' = futures \cup {pend[1].reply}
    /\ persist_rx'[pend[1].reply].st = "pending"

PersistsSent(c) == Indices(bsLog, LAMBDA m : m.reply = c)

\* C10: when the driver handles an EndBatch the aggregator accepts with
\* (num_bytes, payload, digest), it stores (terminator, return channel) under
\* digest and sends one Persist command with a PersistRequest of the local
\* peer, that payload, digest, num_bytes and the command's expiration, whose
\* reply it then awaits; when the aggregator does not accept, nothing is
\* stored and no Persist is sent.
C10_EndBatchPersists ==
    /\ [][/\ HandlesEnd => C10_EndStep
          /\ (pc = "send_persist" /\ pc' # pc) => C10_SendStep]_vars
    /\ [](\A c \in Chans :
            Cardinality(PersistsSent(c)) =
                IF /\ handled[c].end = "some"
                   /\ ~(pc = "send_persist" /\ pend[1].reply = c)
                THEN 1 ELSE 0)

\* A Persist was sent for one EndBatch and none for another, oversize, one.
C10_Witness ==
    \E c, d \in Chans : /\ handled[c].end = "some"
                        /\ Cardinality(PersistsSent(c)) = 1
                        /\ c \in futures
                        /\ handled[d].end = "none"

\* The payloads of a sequence of records, concatenated in order.
RECURSIVE ConcatPayloads(_)
ConcatPayloads(seq) ==
    IF seq = <<>> THEN <<>> ELSE Head(seq).payload \o ConcatPayloads(Tail(seq))

\* The commands of batch_id b the aggregator accepted, in command order.
AcceptedCmds(b) ==
    LET es == SelectSeq(built, LAMBDA e : e.cmd.batch_id = b)
    IN [i \in 1..Len(es) |-> es[i].cmd]

\* C11: the payload of every PersistRequest sent to the Batch Store is the
\* concatenation, in command order, of the payloads of the accepted commands
\* of its batch; and once the terminator of the batch has been broadcast, the
\* payloads of the fragments broadcast for the batch, concatenated in
\* fragment_id order, are that same payload.
C11_PayloadIsConcatenation ==
    \A i \in 1..Len(bsLog) :
        LET c == bsLog[i].reply
            b == EndCmd(c).batch_id
        IN /\ bsLog[i].req.payload = ConcatPayloads(AcceptedCmds(b))
           /\ Cardinality(TerminatorsOf(c)) = 1 =>
                  /\ ConcatPayloads(BatchLog(b)) = bsLog[i].req.payload
                  /\ \A j \in 1..Len(BatchLog(b)) :
                         BatchLog(b)[j].fragment_id = j - 1

\* A batch of two appends and an end was persisted and wholly broadcast.
C11_Witness ==
    \E i \in 1..Len(bsLog) :
        /\ Len(bsLog[i].req.payload) = 3
        /\ Len(AcceptedCmds(EndCmd(bsLog[i].reply).batch_id)) = 3
        /\ Cardinality(TerminatorsOf(bsLog[i].reply)) = 1

\* The step that ends the driver once the command queue is closed and drained
\* and no persist reply is awaited.
TeardownStep ==
    /\ pc = "select"
    /\ closed
    /\ command_rx = <<>>
    /\ futures = {}
    /\ pc' # "select"

\* C12: when the driver is torn down after the producer closed the command
\* queue, the digest map is emptied and the return channel of every entry
\* still in it holds Err(Timeout(batch_id)) of its batch.
C12_TeardownDrains ==
    [][TeardownStep =>
         /\ digest_end_batch' = EmptyMap
         /\ \A d \in DOMAIN digest_end_batch :
                retChan'[digest_end_batch[d].proof_tx] =
                    ChanErr(digest_end_batch[d].fragment.batch_id)]_vars

\* The step that completes the EndBatch arm, and a step of the persist reply
\* arm.
EndBatchDone ==
    \/ HandlesEnd /\ pc' = "select"
    \/ pc = "send_persist" /\ pc' = "select"
ReplyArmStep ==
    \/ pc = "select" /\ \E rx \in Chans : handled'[rx].reply # handled[rx].reply
    \/ pc \in {"send_init", "broadcast_last"} /\ pc' # pc

\* C13: when the driver has handled an EndBatch, accepted by the aggregator or
\* not, fragment_id is 0; the first fragment built for any batch has
\* fragment_id 0; and a step of the persist reply arm leaves fragment_id as
\* it was.
C13_FragmentIdReset ==
    /\ [][/\ EndBatchDone => fragment_id' = 0
          /\ ReplyArmStep => fragment_id' = fragment_id]_vars
    /\ [](\A i \in 1..Len(built) :
             (\A j \in 1..(i - 1) :
                  built[j].fragment.batch_id # built[i].fragment.batch_id)
                 => built[i].fragment.fragment_id = 0)

\* An EndBatch that came after an append was not accepted, and the next batch
\* started with fragment_id 0.
C13_Witness ==
    \E c \in Chans, i \in 1..Len(built) :
        /\ handled[c].end = "none"
        /\ handled[c].fid > 0
        /\ built[i].fragment.batch_id > EndCmd(c).batch_id
        /\ built[i].fragment.fragment_id = 0

\* The driver is suspended in a send to a full queue.
BlockedOnBatchStore == pc = "send_persist" /\ Len(batch_store_tx) >= channel_size
BlockedOnProofBuilder == pc = "send_init" /\ Len(proof_builder_tx) >= channel_size

\* q2 is q1, or q1 without its head, or q1 with one more command at its end.
QueueStep(q1, q2) ==
    \/ q2 = q1
    \/ q1 # <<>> /\ q2 = Tail(q1)
    \/ Len(q2) = Len(q1) + 1 /\ SubSeq(q2, 1, Len(q1)) = q1

\* C14: neither queue ever holds more than channel_size commands; while the
\* driver is suspended in a send to a full queue it takes no command from the
\* producer's queue, handles no persist reply, builds, broadcasts and sends
\* nothing; the suspended send ends only by placing its command at the end of
\* the queue, and a queue loses a command only at its head, to its consumer.
C14_Backpressure ==
    /\ [](/\ Len(batch_store_tx) <= channel_size
          /\ Len(proof_builder_tx) <= channel_size)
    /\ [][/\ BlockedOnBatchStore \/ BlockedOnProofBuilder =>
                /\ UNCHANGED <<driverVars, histVars>>
                /\ Len(command_rx') >= Len(command_rx)
                /\ SubSeq(command_rx', 1, Len(command_rx)) = command_rx
          /\ pc = "send_persist" /\ pc' # pc =>
                batch_store_tx' = Append(batch_store_tx, pend[1])
          /\ pc = "send_init" /\ pc' # pc =>
                proof_builder_tx' = Append(proof_builder_tx,
                    [type |-> "InitProof", sd |-> pend[1].sd,
                     batch_id |-> pend[1].batch_id,
                     proof_tx |-> pend[1].proof_tx])
          /\ QueueStep(batch_store_tx, batch_store_tx')
          /\ QueueStep(proof_builder_tx, proof_builder_tx')]_vars

\* The driver is suspended on the Batch Store's full queue while a producer
\* command waits in its own queue.
C14_Witness ==
    /\ BlockedOnBatchStore
    /\ command_rx # <<>>
    /\ futures # {}

\* The InitProof sends the driver completed for the EndBatch with channel c.
InitProofsSent(c) == Indices(initLog, LAMBDA m : m.proof_tx = c)

\* C15: a send of Persist to a dead Batch Store, or of InitProof to a dead
\* Proof Builder, ends only in the driver's fatal failure; after a fatal
\* failure the driver takes no command, handles no reply, and builds,
\* broadcasts and sends nothing; a terminator is in the broadcast log only if
\* the InitProof of its batch was placed in the Proof Builder's queue.
C15_DeadActorIsFatal ==
    /\ [][/\ pc = "send_persist" /\ ~bs_alive /\ pc' # pc => pc' = "panicked"
          /\ pc = "send_init" /\ ~pb_alive /\ pc' # pc => pc' = "panicked"
          /\ pc = "panicked" =>
                UNCHANGED <<command_rx, driverVars, log, built, bsLog,
                            initLog, handled>>]_vars
    /\ [](\A c \in Chans : handled[c].end # "no" /\ TerminatorsOf(c) # {} =>
                InitProofsSent(c) # {})

\* The driver failed fatally in sending InitProof to the dead Proof Builder:
\* the terminator of that batch was not broadcast and its return channel was
\* dropped, while the persist reply of another batch was still awaited.
C15_Witness ==
    /\ pc = "panicked"
    /\ ~pb_alive
    /\ \E c \in Chans : /\ handled[c].reply = "ok"
                        /\ InitProofsSent(c) = {}
                        /\ TerminatorsOf(c) = {}
                        /\ retChan[c].st = "dropped"
    /\ \E d \in Chans : /\ handled[d].end = "some"
                        /\ PersistsSent(d) # {}
                        /\ handled[d].reply = "no"

\* The command is for another batch than the one in progress, while
\* fragment_id is not 0.
Misordered(command) ==
    /\ batch_aggregator.batch # <<>>
    /\ batch_aggregator.batch # <<command.batch_id>>
    /\ fragment_id # 0

\* C16: when the driver handles an AppendToBatch or EndBatch that is
\* misordered for its aggregator, it fails fatally: no fragment is built or
\* broadcast, nothing is stored in the digest map and no Persist is prepared
\* or sent for it; and after the failure nothing is broadcast or sent.
C16_MisorderIsFatal ==
    [][/\ (HandlesAppend \/ HandlesEnd) /\ Misordered(Head(command_rx)) =>
            /\ pc' = "panicked"
            /\ pend' = <<>>
            /\ digest_end_batch' = EmptyMap
            /\ UNCHANGED <<log, built, bsLog, batch_store_tx>>
       /\ pc = "panicked" => UNCHANGED <<pc, log, built, bsLog>>]_vars

\* The driver failed fatally on an EndBatch for another batch than the one in
\* progress, after it had broadcast a fragment of the batch in progress.
C16_Witness ==
    /\ pc = "panicked"
    /\ \E c \in Chans :
           /\ handled[c].end = "panic"
           /\ handled[c].fid # 0
           /\ handled[c].agg.batch # <<>>
           /\ handled[c].agg.batch # <<EndCmd(c).batch_id>>
           /\ PersistsSent(c) = {}
           /\ BatchLog(EndCmd(c).batch_id) = <<>>
           /\ BatchLog(handled[c].agg.batch[1]) # <<>>

\* C17: the removal's unwrap never fails: for every awaited persist reply
\* that holds a SignedDigest, the digest map has an entry for its digest
\* whenever the driver is at select!, and no reply has been handled by a
\* failed unwrap.
C17_UnwrapNeverFails ==
    /\ \A rx \in Chans : handled[rx].reply # "panic"
    /\ pc = "select" =>
           \A rx \in futures :
               persist_rx[rx].st = "signed" =>
                   persist_rx[rx].sd[1].digest \in DOMAIN digest_end_batch

\* The batch ids whose EndBatch the driver has accepted.
EndedBatches ==
    {EndCmd(c).batch_id : c \in {d \in Chans : handled[d].end = "some"}}
\* The terminator of batch b is among the first n fragments broadcast.
TerminatedBefore(b, n) ==
    \E j \in 1..n : log[j].batch_id = b /\ IsTerminator(log[j])

\* C18: a fragment of a batch started after the EndBatch of batch b is
\* broadcast only after the terminator of b, and a peer's aggregator run
\* over the broadcasts in order assembles every batch whose terminator it
\* has received.
C18_BatchesNotInterleaved ==
    /\ \A i \in 1..Len(log) : \A b \in EndedBatches :
           b < log[i].batch_id => TerminatedBefore(b, i - 1)
    /\ \A c \in Chans :
           (handled[c].end = "some" /\ TerminatorsOf(c) # {}) =>
               \E a \in PeerAssembled(log, AggNew, {}) :
                   a.digest = EndResult(c).digest

\* The digests whose Persist the driver has sent and whose persist reply it
\* has not handled yet.
AwaitedDigests ==
    {EndResult(c).digest :
        c \in {d \in Chans : /\ handled[d].end = "some"
                             /\ PersistsSent(d) # {}
                             /\ handled[d].reply = "no"}}

\* C19: whenever the driver is at select!, the digests in digest_end_batch
\* are exactly those whose Persist has been sent and whose persist reply has
\* not been handled; an entry is gone once its reply has been handled, with
\* a SignedDigest or with an error.
C19_MapIsAwaitedPersists ==
    pc = "select" => DOMAIN digest_end_batch = AwaitedDigests

\* The terminators broadcast so far, in broadcast order.
Terminators == SelectSeq(log, IsTerminator)

\* C20: every InitProof sent carries the digest of a persist reply together
\* with the batch_id and the return channel of the EndBatch that produced
\* that digest, whatever the order in which the replies are handled; no
\* return channel is in two InitProof commands; and the k-th terminator
\* broadcast is the terminator of the batch of the k-th InitProof, broadcast
\* before the next InitProof is sent.
C20_RepliesMatchTheirBatch ==
    /\ \A j \in 1..Len(initLog) :
           LET c == initLog[j].proof_tx IN
           /\ handled[c].end = "some"
           /\ handled[c].reply = "ok"
           /\ initLog[j].sd.digest = EndResult(c).digest
           /\ initLog[j].batch_id = EndCmd(c).batch_id
           /\ \A k \in 1..Len(initLog) : initLog[k].proof_tx = c => k = j
    /\ Len(Terminators) =
           IF pc = "broadcast_last" THEN Len(initLog) - 1 ELSE Len(initLog)
    /\ \A k \in 1..Len(Terminators) :
           Terminators[k] = TerminatorOf(initLog[k].proof_tx)

\* Two batches awaited their persist replies at once and the reply of the
\* later one was handled first; both InitProofs and terminators are out.
C20_Witness ==
    /\ Len(initLog) = 2
    /\ Len(Terminators) = 2
    /\ initLog[1].batch_id > initLog[2].batch_id

\* C21: whenever the driver is at select! and has not failed fatally, its
\* fragment_id is the fragment id the self-aggregator expects next (0 when
\* no batch is in progress), also after an AppendToBatch that the aggregator
\* did not accept.
C21_FragmentIdIsNextExpected ==
    pc = "select" => fragment_id = batch_aggregator.next

\* A SignedDigest reply for the EndBatch with channel c is ready and the
\* driver, which has not failed, has not taken it yet.
SignedReplyAwaits(c) ==
    /\ pc # "panicked"
    /\ c \in futures
    /\ persist_rx[c].st = "signed"
\* The InitProof of the EndBatch with channel c is sent and its terminator
\* broadcast.
ProofStarted(c) ==
    /\ handled[c].end = "some"
    /\ \E j \in 1..Len(initLog) : initLog[j].proof_tx = c
    /\ TerminatorsOf(c) # {}

====
